---- MODULE Spec2Model ----
(***************************************************************************)
(* Reuse-distance trackers of pinkit/sde-example/include/reuse_distance.H: *)
(*   RD_Treap  - the exact tracker (recency tree with subtree counts),     *)
(*   RD_LogRR  - the approximate tracker (round-robin pools).              *)
(* Each tracker is a state machine whose only operation is                 *)
(* reference(address).  A tracker instance is owned by one thread, so a    *)
(* call runs to completion and is one atomic action.                       *)
(*                                                                         *)
(* RD_LogRR is parameterised in the source by MIN_SIZE_BITS = 10 and       *)
(* MAX_SIZE_BITS = 24 (2^24 slots).  The model keeps every expression of   *)
(* the source in terms of these two names and instantiates them with the   *)
(* smallest values that keep three pools (MIN_SIZE_BITS = 1,               *)
(* MAX_SIZE_BITS = 4, 16 slots), so that an address can be found in the    *)
(* first pool, in the second pool, in a later pool, or fall off the end.   *)
(***************************************************************************)
EXTENDS Integers, Sequences, FiniteSets, TLC

\* ----------------------------------------------------------------- bounds
\* Number of distinct non-zero addresses offered to RD_LogRR.
NumAddr == 8
\* Number of distinct non-zero addresses offered to RD_LogRR when the
\* recency order of the calls is recorded next to the tracker.
NumAddrRecency == 5
\* Largest address offered to RD_LogRR when address 0 is offered as well.
NumAddrZero == 4
\* Number of distinct addresses offered to RD_Treap.
NumAddrTreap == 7
\* Number of calls of RD_Treap::reference in a run.
MaxCallsTreap == 11
\* Number of times an address may fall off the last pool of RD_LogRR.
MaxEvictions == 2

\* ------------------------------------------------------- program constants
\* Node* NULL; node pointers are modelled by the node's (non-zero) address.
NULL == 0
\* dist = INT_MAX for a first reference (RD_Treap::reference).
INT_MAX == 2147483647
\* RD_LogRR::MIN_SIZE_BITS (10 in the source, scaled).
MIN_SIZE_BITS == 1
\* RD_LogRR::MAX_SIZE_BITS (24 in the source, scaled).
MAX_SIZE_BITS == 4
MIN_SIZE == 2^MIN_SIZE_BITS
MAX_SIZE == 2^MAX_SIZE_BITS

VARIABLES
    \* RD_Treap
    _map,              \* std::map<ADDRINT, Node*>: address -> node
    nodes,             \* the heap: node -> its Node fields
    _root,             \* Node* _root
    t_last,            \* the last call of RD_Treap::reference and what it returned
    t_recency,         \* history: addresses referenced, most recently referenced first
    t_calls,           \* history: number of calls of RD_Treap::reference so far
    \* RD_LogRR
    entries_map,       \* std::map<ADDRINT, UINT64>: address -> slot index
    entries_list,      \* std::vector<ADDRINT>: slot index -> address (0 = empty)
    replace_position,  \* UINT64[MAX_SIZE_BITS]: round-robin cursor of each pool
    rr_last,           \* the last call of RD_LogRR::reference and what it did
    rr_seen,           \* history: addresses passed to RD_LogRR::reference so far
    rr_dropped,        \* history: addresses erased from the map and not referenced since
    rr_evictions,      \* history: number of entries_map.erase calls so far
    rr_recency         \* history: those addresses, most recently referenced first

rr_vars == <<entries_map, entries_list, replace_position, rr_last, rr_seen,
             rr_dropped, rr_evictions, rr_recency>>
t_vars == <<_map, nodes, _root, t_last, t_recency, t_calls>>
vars == <<t_vars, rr_vars>>

\* ------------------------------------------------------------ int_log2
\* v >> k on UINT64 (2^k itself must stay below 2^31 for TLC's integers).
Shr(v, k) == IF k > 30 THEN (v \div 2^30) \div 2^(k - 30) ELSE v \div 2^k

\* One "y = x >> k; if (y != 0) { n -= k; x = y; }" step of lzcount.
lzstep(s, k) ==
    LET y == Shr(s.x, k)
    IN  IF y # 0 THEN [n |-> s.n - k, x |-> y] ELSE s

\* lzcount without the 16-bit step.
lzcountNo16(v) ==
    IF v = 0 THEN 64
    ELSE LET s == lzstep(lzstep(lzstep(lzstep([n |-> 64, x |-> v], 32), 8), 4), 2)
             y == Shr(s.x, 1)
         IN  IF y # 0 THEN s.n - 2 ELSE s.n - s.x

lzcount(v) ==
    IF v = 0 THEN 64
    ELSE LET s == lzstep(lzstep(lzstep(lzstep(lzstep([n |-> 64, x |-> v],
                                                      32), 16), 8), 4), 2)
             y == Shr(s.x, 1)
         IN  IF y # 0 THEN s.n - 2 ELSE s.n - s.x

\* sizeof(UINT64) * 8 - 1 - lzcount(v); every caller passes v >= 1.
int_log2(v) == 8 * 8 - 1 - lzcount(v)


\* ------------------------------------------------------------ std::map
\* m[k] = v
MapPut(m, k, v) == [x \in (DOMAIN m) \cup {k} |-> IF x = k THEN v ELSE m[x]]
\* m.erase(k)
MapErase(m, k) == [x \in (DOMAIN m) \ {k} |-> m[x]]

\* ------------------------------------------------------------ RD_Treap
\* A node is named by the address it was created for: reference creates one
\* node per address missing from _map and never deletes one.
Node(address) ==
    [_address |-> address, _parent |-> NULL, _left |-> NULL, _right |-> NULL,
     _count |-> 1]

isRightChild(ns, n) ==
    ns[n]._parent # NULL /\ ns[ns[n]._parent]._right = n

\* setLeft without "left->_parent = this".
setLeftNoParent(ns, n, left) == [ns EXCEPT ![n]._left = left]

setLeft(ns, n, left) ==
    LET ns1 == [ns EXCEPT ![n]._left = left]
    IN  IF left # NULL THEN [ns1 EXCEPT ![left]._parent = n] ELSE ns1

setRight(ns, n, right) ==
    LET ns1 == [ns EXCEPT ![n]._right = right]
    IN  IF right # NULL THEN [ns1 EXCEPT ![right]._parent = n] ELSE ns1

\* updateCount that never recurses into the parent.
updateCountNoRecurse(ns, n, recurse) ==
    [ns EXCEPT ![n]._count =
        (IF ns[n]._left # NULL THEN ns[ns[n]._left]._count ELSE 0) + 1
        + (IF ns[n]._right # NULL THEN ns[ns[n]._right]._count ELSE 0)]

RECURSIVE updateCount(_, _, _)
updateCount(ns, n, recurse) ==
    LET ns1 == [ns EXCEPT ![n]._count =
                    (IF ns[n]._left # NULL THEN ns[ns[n]._left]._count ELSE 0) + 1
                    + (IF ns[n]._right # NULL THEN ns[ns[n]._right]._count ELSE 0)]
    IN  IF recurse /\ ns[n]._parent # NULL
        THEN updateCount(ns1, ns[n]._parent, recurse)
        ELSE ns1

RECURSIVE stealChild(_, _, _)
\* stealChild that always takes fromNode's left subtree.
stealChildLeftFirst(ns, this, fromNode) ==
    LET a == setRight(ns, this, ns[fromNode]._left)
        moved == setLeft(a, fromNode, NULL)
    IN  updateCount(updateCount(moved, fromNode, FALSE), this, FALSE)

\* Take fromNode's right subtree (or, without one, its left subtree) as this
\* node's right child; fromNode refills its right side from its left child.
stealChild(ns, this, fromNode) ==
    LET moved ==
            IF ns[fromNode]._right # NULL
            THEN LET a == setRight(ns, this, ns[fromNode]._right)
                     b == setRight(a, fromNode, NULL)
                 IN  IF b[fromNode]._left # NULL
                     THEN stealChild(b, fromNode, b[fromNode]._left)
                     ELSE b
            ELSE LET a == setRight(ns, this, ns[fromNode]._left)
                 IN  setLeft(a, fromNode, NULL)
    IN  updateCount(updateCount(moved, fromNode, FALSE), this, FALSE)

insertAtRoot(ns, this, currentRoot) ==
    LET a == [ns EXCEPT ![this]._parent = NULL]
        b == setLeft(a, this, currentRoot)
    IN  stealChild(b, this, currentRoot)

\* moveToRoot, "at most one child": take the node out, put its child in its
\* place, update the counts up to the root, insert the node at the root.
spliceToRoot(ns, this, currentRoot) ==
    LET child == IF ns[this]._left # NULL THEN ns[this]._left ELSE ns[this]._right
        parent == ns[this]._parent
        a == IF ns[parent]._left = this
             THEN setLeft(ns, parent, child)
             ELSE setRight(ns, parent, child)
        b == updateCount(a, parent, TRUE)
    IN  insertAtRoot(b, this, currentRoot)

\* moveToRoot, two children: swap with the parent to move the node up.
swapWithParent(ns, this) ==
    LET parent == ns[this]._parent
        pparent == ns[parent]._parent
        left == ns[this]._left
        right == ns[this]._right
        a == IF ns[parent]._left = this
             THEN LET a1 == setLeft(ns, this, parent)
                      a2 == setRight(a1, this, a1[parent]._right)
                      a3 == setLeft(a2, parent, left)
                  IN  setRight(a3, parent, right)
             ELSE LET a1 == setLeft(ns, this, parent)
                  IN  setRight(a1, parent, left)
        b == IF pparent = NULL
             THEN [a EXCEPT ![this]._parent = NULL]
             ELSE IF a[pparent]._left = parent
                  THEN setLeft(a, pparent, this)
                  ELSE setRight(a, pparent, this)
    IN  updateCount(updateCount(b, parent, FALSE), this, FALSE)

\* The loop body without the "at most one child" branch.
moveToRootStepAlwaysSwap(ns, this, currentRoot) == swapWithParent(ns, this)

\* One iteration of the while loop of moveToRoot.
moveToRootStep(ns, this, currentRoot) ==
    IF ns[this]._left = NULL \/ ns[this]._right = NULL
    THEN spliceToRoot(ns, this, currentRoot)
    ELSE swapWithParent(ns, this)

\* "if (_parent)" in place of "while (_parent)".
moveToRootOnce(ns, this, currentRoot) ==
    IF ns[this]._parent = NULL THEN ns
    ELSE moveToRootStep(ns, this, currentRoot)

\* while (_parent) { ... }
RECURSIVE moveToRoot(_, _, _)
moveToRoot(ns, this, currentRoot) ==
    IF ns[this]._parent = NULL THEN ns
    ELSE moveToRoot(moveToRootStep(ns, this, currentRoot), this, currentRoot)

RECURSIVE computePosition(_, _)
RECURSIVE sumLeft(_, _)
\* sumLeft without the left subtree's count.
sumLeftNoLeft(ns, n) == computePosition(ns, n)

sumLeft(ns, n) ==
    computePosition(ns, n)
    + (IF ns[n]._left # NULL THEN ns[ns[n]._left]._count ELSE 0)

computePosition(ns, n) ==
    IF isRightChild(ns, n) THEN sumLeft(ns, ns[n]._parent) + 1
    ELSE IF ns[n]._parent # NULL THEN computePosition(ns, ns[n]._parent) + 1
    ELSE 1

\* The branch taken by each iteration of moveToRoot, in order.
RECURSIVE moveToRootSteps(_, _, _)
moveToRootSteps(ns, this, currentRoot) ==
    IF ns[this]._parent = NULL THEN <<>>
    ELSE <<IF ns[this]._left = NULL \/ ns[this]._right = NULL
           THEN "splice"
           ELSE IF ns[ns[this]._parent]._left = this THEN "swapLeft" ELSE "swapRight">>
         \o moveToRootSteps(moveToRootStep(ns, this, currentRoot), this, currentRoot)

\* RD_Treap::reference on the tracker (m, ns, root): the new fields, dist and
\* the value returned.
Treap_reference(m, ns, root, address) ==
    IF address \in DOMAIN m
    THEN LET node == m[address]
             dist == computePosition(ns, node)
         IN  [map |-> m, nodes |-> moveToRoot(ns, node, root), root |-> node,
              dist |-> dist, ret |-> int_log2(dist),
              steps |-> moveToRootSteps(ns, node, root)]
    ELSE LET node == address
             ns0 == [x \in (DOMAIN ns) \cup {node} |->
                        IF x = node THEN Node(address) ELSE ns[x]]
         IN  [map |-> MapPut(m, address, node),
              nodes |-> IF root # NULL THEN insertAtRoot(ns0, node, root) ELSE ns0,
              root |-> node, dist |-> INT_MAX, ret |-> int_log2(INT_MAX),
              steps |-> <<>>]

\* Recency order after a reference to a: a first, the others as they were.
Touch(order, a) == <<a>> \o SelectSeq(order, LAMBDA x : x # a)

\* 1-based place of a in the recency order, 0 when a is not in it.
Rank(order, a) ==
    IF \E i \in 1 .. Len(order) : order[i] = a
    THEN CHOOSE i \in 1 .. Len(order) : order[i] = a
    ELSE 0

\* A call of RD_Treap::reference(address).  t_last records the call: the
\* address, dist, the value returned, and what held when the call was made
\* (known: the address was in _map; rank: its place in the recency order, 0 if
\* none; afterFresh: every earlier call was a first reference; fresh: so was
\* this one), and which branch each iteration of moveToRoot took.
T_Reference(address) ==
    \E r \in {Treap_reference(_map, nodes, _root, address)} :
        /\ _map' = r.map
        /\ nodes' = r.nodes
        /\ _root' = r.root
        /\ t_last' = [address |-> address, ret |-> r.ret, dist |-> r.dist,
                      known |-> address \in DOMAIN _map,
                      rank |-> Rank(t_recency, address),
                      fresh |-> t_last.fresh /\ address \notin DOMAIN _map,
                      afterFresh |-> t_last.fresh,
                      steps |-> r.steps]
        /\ t_recency' = Touch(t_recency, address)
        /\ t_calls' = t_calls + 1

T_Init ==
    /\ _map = << >>
    /\ nodes = << >>
    /\ _root = NULL
    /\ t_last = [address |-> 0, ret |-> 0, dist |-> 0, known |-> FALSE, rank |-> 0,
                 fresh |-> TRUE, afterFresh |-> TRUE, steps |-> <<>>]
    /\ t_recency = <<>>
    /\ t_calls = 0

\* ------------------------------------------------------------ RD_LogRR
\* getIdx without the pool's offset.
getIdxNoOffset(bin, idx) == idx

getIdx(bin, idx) == IF bin = MIN_SIZE_BITS THEN idx ELSE 2^(bin - 1) + idx

\* The cursor advance with the mask (UINT64(1) << bin) - 1.
NextReplacePositionFullMask(bin, cur) == (cur + 1) % 2^bin

\* (replace_position[bin] + 1) & ((UINT64(1) << (bin - 1)) - 1):
\* and-ing with 2^(bin-1) - 1 keeps the low bin-1 bits.
NextReplacePosition(bin, cur) == (cur + 1) % 2^(bin - 1)

\* The for loop without "entries_map[item] = idx".
RECURSIVE PromotionWalkNoMapUpdate(_, _, _)
PromotionWalkNoMapUpdate(st, bin, pos_log2) ==
    IF ~(bin < pos_log2) THEN st
    ELSE LET idx == getIdx(bin, st.rp[bin])
             replace_item == st.list[idx]
             st1 == [st EXCEPT
                        !.list = [st.list EXCEPT ![idx] = st.item],
                        !.rp = [st.rp EXCEPT ![bin] = NextReplacePosition(bin, st.rp[bin])],
                        !.item = replace_item,
                        !.walk = Append(st.walk, [bin |-> bin, idx |-> idx,
                                                  item |-> st.item, out |-> replace_item])]
         IN  IF replace_item = 0 THEN st1
             ELSE PromotionWalkNoMapUpdate(st1, bin + 1, pos_log2)

\* The for loop with "bin <= pos_log2" (bin kept inside replace_position).
RECURSIVE PromotionWalkInclusive(_, _, _)
PromotionWalkInclusive(st, bin, pos_log2) ==
    IF ~(bin <= pos_log2 /\ bin < MAX_SIZE_BITS) THEN st
    ELSE LET idx == getIdx(bin, st.rp[bin])
             replace_item == st.list[idx]
             st1 == [st EXCEPT
                        !.list = [st.list EXCEPT ![idx] = st.item],
                        !.map = MapPut(st.map, st.item, idx),
                        !.rp = [st.rp EXCEPT ![bin] = NextReplacePosition(bin, st.rp[bin])],
                        !.item = replace_item,
                        !.walk = Append(st.walk, [bin |-> bin, idx |-> idx,
                                                  item |-> st.item, out |-> replace_item])]
         IN  IF replace_item = 0 THEN st1
             ELSE PromotionWalkInclusive(st1, bin + 1, pos_log2)

\* The for loop without "if (item == 0) break".
RECURSIVE PromotionWalkNoBreak(_, _, _)
PromotionWalkNoBreak(st, bin, pos_log2) ==
    IF ~(bin < pos_log2) THEN st
    ELSE LET idx == getIdx(bin, st.rp[bin])
             replace_item == st.list[idx]
             st1 == [st EXCEPT
                        !.list = [st.list EXCEPT ![idx] = st.item],
                        !.map = MapPut(st.map, st.item, idx),
                        !.rp = [st.rp EXCEPT ![bin] = NextReplacePosition(bin, st.rp[bin])],
                        !.item = replace_item,
                        !.walk = Append(st.walk, [bin |-> bin, idx |-> idx,
                                                  item |-> st.item, out |-> replace_item])]
         IN  PromotionWalkNoBreak(st1, bin + 1, pos_log2)

\* The for loop of reference, from `bin` on.  st carries the tracker's
\* fields, the carried item and the slots written so far.
RECURSIVE PromotionWalk(_, _, _)
PromotionWalk(st, bin, pos_log2) ==
    IF ~(bin < pos_log2) THEN st
    ELSE LET idx == getIdx(bin, st.rp[bin])
             replace_item == st.list[idx]
             st1 == [st EXCEPT
                        !.list = [st.list EXCEPT ![idx] = st.item],
                        !.map = MapPut(st.map, st.item, idx),
                        !.rp = [st.rp EXCEPT ![bin] = NextReplacePosition(bin, st.rp[bin])],
                        !.item = replace_item,
                        !.walk = Append(st.walk, [bin |-> bin, idx |-> idx,
                                                  item |-> st.item, out |-> replace_item])]
         IN  IF replace_item = 0 THEN st1
             ELSE PromotionWalk(st1, bin + 1, pos_log2)

\* Finalize without "entries_map.erase(item)".
FinalizeNoErase(st, position, pos_log2) ==
    IF pos_log2 < MAX_SIZE_BITS
    THEN [st EXCEPT !.list = [st.list EXCEPT ![position] = st.item],
                    !.map = MapPut(st.map, st.item, position)]
    ELSE IF st.item # 0
         THEN [st EXCEPT !.erased = TRUE]
         ELSE st

\* Finalize without the write of the carried item into the vacated slot.
FinalizeNoGapFill(st, position, pos_log2) ==
    IF pos_log2 < MAX_SIZE_BITS
    THEN st
    ELSE IF st.item # 0
         THEN [st EXCEPT !.map = MapErase(st.map, st.item), !.erased = TRUE]
         ELSE st

\* if (pos_log2 < MAX_SIZE_BITS) {...} else if (item) {...}
Finalize(st, position, pos_log2) ==
    IF pos_log2 < MAX_SIZE_BITS
    THEN [st EXCEPT !.list = [st.list EXCEPT ![position] = st.item],
                    !.map = MapPut(st.map, st.item, position)]
    ELSE IF st.item # 0
         THEN [st EXCEPT !.map = MapErase(st.map, st.item), !.erased = TRUE]
         ELSE st

\* if (entries_list.size() == 0) entries_list.resize(MAX_SIZE);
LazyAllocate(list) ==
    IF DOMAIN list = {} THEN [i \in 0 .. MAX_SIZE - 1 |-> 0] ELSE list

\* reference without the early return.
ShortCircuitNever(map, address) == FALSE

\* if (entries_map.count(address)) { position = ...; if (position < MIN_SIZE)
\* return MIN_SIZE_BITS; ...: the address is in the first MIN_SIZE slots.
ShortCircuit(map, address) ==
    address \in DOMAIN map /\ map[address] < MIN_SIZE

\* Lookup with pos_log2 one too low for an address missing from the map.
LookupOffByOne(map, address) ==
    IF address \in DOMAIN map
    THEN [position |-> map[address], pos_log2 |-> int_log2(map[address])]
    ELSE [position |-> MAX_SIZE, pos_log2 |-> MAX_SIZE_BITS - 1]

\* Lookup with pos_log2 = int_log2(position) + 1 for an address in the map.
LookupTierNumber(map, address) ==
    IF address \in DOMAIN map
    THEN [position |-> map[address], pos_log2 |-> int_log2(map[address]) + 1]
    ELSE [position |-> MAX_SIZE, pos_log2 |-> MAX_SIZE_BITS]

\* position and pos_log2 of an address that did not return early.
Lookup(map, address) ==
    IF address \in DOMAIN map
    THEN [position |-> map[address], pos_log2 |-> int_log2(map[address])]
    ELSE [position |-> MAX_SIZE, pos_log2 |-> MAX_SIZE_BITS]

\* RD_LogRR::reference on the tracker (list, map, rp): the new fields, the
\* value returned, the carried item at the end (when the walk ran), the slots
\* written by the walk and whether an address was erased from the map.
LogRR_reference(list, map, rp, address) ==
    LET st0 == [list |-> LazyAllocate(list), map |-> map, rp |-> rp,
                item |-> address, walk |-> <<>>, erased |-> FALSE]
    IN  IF ShortCircuit(map, address)
        THEN st0 @@ [ret |-> MIN_SIZE_BITS, walked |-> FALSE]
        ELSE LET l == Lookup(map, address)
                 st1 == PromotionWalk(st0, MIN_SIZE_BITS, l.pos_log2)
             IN  Finalize(st1, l.position, l.pos_log2)
                     @@ [ret |-> l.pos_log2, walked |-> TRUE]

\* A call of RD_LogRR::reference(address).  rr_last records the call: the
\* address, the value returned, and what held of the address when the call
\* was made (resident: in the position map; seen: referenced before; dropped:
\* erased from the map since its last reference; again: the address of the
\* call before; rank: its place in the recorded recency order, 0 if none).
RR_Reference(address) ==
    \E r \in {LogRR_reference(entries_list, entries_map, replace_position, address)} :
        /\ r.erased => rr_evictions < MaxEvictions
        /\ entries_list' = r.list
        /\ entries_map' = r.map
        /\ replace_position' = r.rp
        /\ rr_last' = [address |-> address, ret |-> r.ret,
                       resident |-> address \in DOMAIN entries_map,
                       seen |-> address \in rr_seen,
                       dropped |-> address \in rr_dropped,
                       again |-> rr_seen # {} /\ rr_last.address = address,
                       rank |-> Rank(rr_recency, address),
                       walked |-> r.walked, item |-> r.item, walk |-> r.walk,
                       erased |-> r.erased]
        /\ rr_seen' = rr_seen \cup {address}
        /\ rr_dropped' = (rr_dropped \ {address})
                             \cup (IF r.erased THEN {r.item} ELSE {})
        /\ rr_evictions' = rr_evictions + (IF r.erased THEN 1 ELSE 0)

RR_Init ==
    /\ entries_map = << >>
    /\ entries_list = << >>
    /\ replace_position = [b \in 0 .. MAX_SIZE_BITS - 1 |-> 0]
    /\ rr_last = [address |-> 0, ret |-> 0, resident |-> FALSE, seen |-> FALSE,
                  dropped |-> FALSE, again |-> FALSE, rank |-> 0,
                  walked |-> FALSE, item |-> 0, walk |-> <<>>, erased |-> FALSE]
    /\ rr_seen = {}
    /\ rr_dropped = {}
    /\ rr_evictions = 0
    /\ rr_recency = <<>>

Init == T_Init /\ RR_Init

\* The tracker only compares addresses for equality (with each other and with
\* 0), so the addresses are interchangeable: a never-referenced address is
\* offered under the smallest unused number.
Offered(a) == a <= Cardinality(rr_seen \ {0}) + 1

\* Non-zero addresses only (the documented precondition).
NextLogRR ==
    \E a \in 1 .. NumAddr :
        Offered(a) /\ RR_Reference(a) /\ UNCHANGED <<rr_recency, t_vars>>

\* Non-zero addresses, with the recency order of the calls recorded.
NextLogRRRecency ==
    \E a \in 1 .. NumAddrRecency :
        /\ Offered(a) /\ RR_Reference(a) /\ rr_recency' = Touch(rr_recency, a)
        /\ UNCHANGED t_vars

\* Address 0 offered as well.
NextLogRRZero ==
    \E a \in 0 .. NumAddrZero :
        Offered(a) /\ RR_Reference(a) /\ UNCHANGED <<rr_recency, t_vars>>

\* RD_Treap handles every address alike; a never-referenced address is
\* offered under the smallest unused number.
NextTreap ==
    \E a \in 1 .. NumAddrTreap :
        /\ a <= Len(t_recency) + 1
        /\ t_calls < MaxCallsTreap
        /\ T_Reference(a)
        /\ UNCHANGED rr_vars

SpecTreap == Init /\ [][NextTreap]_vars
SpecLogRR == Init /\ [][NextLogRR]_vars
SpecLogRRRecency == Init /\ [][NextLogRRRecency]_vars
SpecLogRRZero == Init /\ [][NextLogRRZero]_vars

\* ================================================================ claims
\* floor(log2(d)) for d >= 1, by its definition: 2^k <= d < 2^(k+1).
FloorLog2(d) == CHOOSE k \in 0 .. 30 : 2^k <= d /\ d \div 2 < 2^k

\* Preorder traversal from n: the node, its left subtree, its right subtree.
RECURSIVE Preorder(_, _)
Preorder(ns, n) ==
    IF n = NULL THEN <<>>
    ELSE <<ns[n]._address>> \o Preorder(ns, ns[n]._left) \o Preorder(ns, ns[n]._right)

\* C1: RD_Treap: a reference to an address referenced before returns
\* floor(log2(d)), d being the address's 1-based rank in the recency order
\* (most recent first) just before the call; an immediate repeat returns 0.
C1_KnownReturnsLog2OfRank ==
    t_last.known =>
        /\ t_last.rank >= 1
        /\ t_last.dist = t_last.rank
        /\ t_last.ret = FloorLog2(t_last.rank)
        /\ (t_last.rank = 1 => t_last.ret = 0)

\* A re-reference at rank 4 or more that needed both a swap and a splice.
C1_Witness ==
    /\ t_last.known
    /\ t_last.rank >= 4
    /\ t_last.ret = 2
    /\ \E i \in 1 .. Len(t_last.steps) : t_last.steps[i] = "splice"
    /\ \E i \in 1 .. Len(t_last.steps) : t_last.steps[i] # "splice"

\* C2 (as stated): from an empty tracker, after k >= 1 distinct addresses
\* were each referenced once, re-referencing the first of them returns
\* floor(log2(k+1)).
C2_AsStated ==
    (t_last.known /\ t_last.afterFresh /\ t_last.rank = Len(t_recency)) =>
        t_last.ret = FloorLog2(Len(t_recency) + 1)

\* C2 (amended): from an empty tracker, after k >= 1 distinct addresses were
\* each referenced once, re-referencing the first of them returns
\* floor(log2(k)): the first address is then k-th in recency order.
C2_FirstOfKReturnsLog2K ==
    (t_last.known /\ t_last.afterFresh /\ t_last.rank = Len(t_recency)) =>
        t_last.ret = FloorLog2(Len(t_recency))

\* The first of four addresses re-referenced right after the four first
\* references.
C2_Witness ==
    /\ t_last.known
    /\ t_last.afterFresh
    /\ t_last.rank = Len(t_recency)
    /\ Len(t_recency) = 4
    /\ t_last.ret = 2

\* C7: RD_Treap: a reference to an address never referenced before returns
\* floor(log2(2^31 - 1)) = 30, on the empty tracker and on any other.
C7_FirstReferenceReturns30 ==
    (t_recency # <<>> /\ ~t_last.known) =>
        /\ t_last.dist = 2147483647
        /\ t_last.ret = 30

\* A first reference on a tracker that already holds three addresses.
C7_Witness ==
    /\ ~t_last.known
    /\ Len(t_recency) = 4
    /\ t_last.ret = 30

\* C10: RD_Treap: the preorder traversal from the root lists the addresses
\* seen so far from most to least recently referenced (the recency order
\* kept by moving only the referenced address to the front).
C10_PreorderIsRecencyOrder ==
    Preorder(nodes, _root) = t_recency

\* A re-reference that moved an address from the middle of a 7-node tree to
\* the root in two or more iterations of moveToRoot.
C10_Witness ==
    /\ Len(t_recency) = 7
    /\ t_last.known
    /\ t_last.rank \in 2 .. 4
    /\ Len(t_last.steps) >= 2
    /\ Preorder(nodes, _root) = t_recency

\* ------------------------------------------------- RD_Treap, structure
\* Nodes reached from n through child links, in preorder.
RECURSIVE PreorderNodes(_, _)
PreorderNodes(ns, n) ==
    IF n = NULL THEN <<>>
    ELSE <<n>> \o PreorderNodes(ns, ns[n]._left) \o PreorderNodes(ns, ns[n]._right)

\* Number of nodes of the subtree rooted at n.
SubtreeSize(ns, n) == Len(PreorderNodes(ns, n))

\* C11: RD_Treap: whenever reference returns, every node's _count is
\* 1 + (its left child's count or 0) + (its right child's count or 0), and
\* that is the number of nodes of the subtree rooted at the node.
C11_CountIsSubtreeSize ==
    \A n \in DOMAIN nodes :
        /\ nodes[n]._count =
              (IF nodes[n]._left # NULL THEN nodes[nodes[n]._left]._count ELSE 0) + 1
              + (IF nodes[n]._right # NULL THEN nodes[nodes[n]._right]._count ELSE 0)
        /\ nodes[n]._count = SubtreeSize(nodes, n)

\* A re-reference that took the node out from under two or more ancestors
\* (their counts are updated up to the root) in a tree with an inner node of
\* three or more nodes besides the root.
C11_Witness ==
    /\ t_last.known
    /\ t_last.rank >= 4
    /\ \E i \in 1 .. Len(t_last.steps) : t_last.steps[i] = "splice"
    /\ \E n \in DOMAIN nodes : n # _root /\ nodes[n]._count >= 3
    /\ nodes[_root]._count = 7

\* C12: RD_Treap: the nodes reachable from _root through child links are
\* exactly the nodes held in _map, one node per distinct address referenced
\* so far, each reached once; every non-root node's _parent is the one node
\* whose _left or _right is that node; the root's count is the number of
\* distinct addresses seen.
C12_TreeHoldsExactlyTheMappedNodes ==
    LET reach == PreorderNodes(nodes, _root)
        held == {_map[a] : a \in DOMAIN _map}
    IN  /\ DOMAIN _map = {t_recency[i] : i \in 1 .. Len(t_recency)}
        /\ \A a \in DOMAIN _map : nodes[_map[a]]._address = a
        /\ \A a, b \in DOMAIN _map : a # b => _map[a] # _map[b]
        /\ held = DOMAIN nodes
        /\ {reach[i] : i \in 1 .. Len(reach)} = held
        /\ Len(reach) = Cardinality(held)
        /\ \A n \in DOMAIN nodes :
              IF n = _root THEN nodes[n]._parent = NULL
              ELSE /\ nodes[n]._parent \in DOMAIN nodes
                   /\ (nodes[nodes[n]._parent]._left = n)
                          # (nodes[nodes[n]._parent]._right = n)
                   /\ \A q \in DOMAIN nodes :
                          (nodes[q]._left = n \/ nodes[q]._right = n)
                              => q = nodes[n]._parent
        /\ _root # NULL => nodes[_root]._count = Cardinality(DOMAIN _map)

\* Seven addresses in the tree, the last call a re-reference that swapped
\* the node with its parent.
C12_Witness ==
    /\ Cardinality(DOMAIN _map) = 7
    /\ Len(PreorderNodes(nodes, _root)) = 7
    /\ t_last.known
    /\ \E i \in 1 .. Len(t_last.steps) : t_last.steps[i] # "splice"

\* C13: RD_Treap: after every reference(a), a known or new, the node of a is
\* the root: _root points to it and its _parent is null.
C13_ReferencedNodeIsRoot ==
    t_recency # <<>> =>
        /\ t_last.address \in DOMAIN _map
        /\ _root = _map[t_last.address]
        /\ nodes[_root]._address = t_last.address
        /\ nodes[_root]._parent = NULL

\* A known address brought to the root by a swap with a parent that was not
\* the root, followed by further iterations.
C13_Witness ==
    /\ t_last.known
    /\ Len(t_last.steps) >= 2
    /\ t_last.steps[1] # "splice"
    /\ _root = _map[t_last.address]
    /\ nodes[_root]._parent = NULL

\* Number of _parent links from n up to a node without parent.
RECURSIVE Depth(_, _)
Depth(ns, n) == IF ns[n]._parent = NULL THEN 0 ELSE 1 + Depth(ns, ns[n]._parent)

\* The node's depth before each iteration of moveToRoot and after the last.
RECURSIVE moveToRootDepths(_, _, _)
moveToRootDepths(ns, this, currentRoot) ==
    <<Depth(ns, this)>>
    \o (IF ns[this]._parent = NULL THEN <<>>
        ELSE moveToRootDepths(moveToRootStep(ns, this, currentRoot), this, currentRoot))

\* C14: RD_Treap::moveToRoot, called on any node of any reachable tree with
\* the tree's root: every iteration strictly decreases the node's depth (a
\* swap by one level, a splice-and-reinsert to depth 0), so the loop runs at
\* most depth-many times, and it ends with the node having no parent.
C14_MoveToRootDecreasesDepth ==
    \A n \in DOMAIN nodes :
        LET d == moveToRootDepths(nodes, n, _root)
            s == moveToRootSteps(nodes, n, _root)
        IN  /\ Len(d) = Len(s) + 1
            /\ Len(s) <= d[1]
            /\ \A i \in 1 .. Len(s) :
                  /\ d[i + 1] < d[i]
                  /\ s[i] = "splice" => d[i + 1] = 0
                  /\ s[i] # "splice" => d[i + 1] = d[i] - 1
            /\ d[Len(d)] = 0
            /\ moveToRoot(nodes, n, _root)[n]._parent = NULL

\* A tree, left by a re-reference, with a node two or more levels down that
\* moveToRoot brings to the root in two or more iterations, the first a swap.
C14_Witness ==
    /\ t_last.known
    /\ \E n \in DOMAIN nodes :
          /\ Depth(nodes, n) >= 2
          /\ Len(moveToRootSteps(nodes, n, _root)) >= 2
          /\ moveToRootSteps(nodes, n, _root)[1] # "splice"

\* ------------------------------------------------- RD_LogRR
\* Slots that hold an address.
RR_OccupiedSlots == {p \in DOMAIN entries_list : entries_list[p] # 0}

\* C3 (as stated): RD_LogRR: a re-reference of an address with fewer than
\* MIN_SIZE distinct other addresses referenced since its previous reference
\* returns MIN_SIZE_BITS.  (rank - 1 is that number of other addresses.)
C3_AsStated ==
    (rr_last.rank >= 1 /\ rr_last.rank - 1 < MIN_SIZE) =>
        rr_last.ret = MIN_SIZE_BITS

\* C3 (amended): RD_LogRR: a re-reference of an address with no other
\* address referenced since its previous reference returns MIN_SIZE_BITS.
C3_ImmediateRepeatReturnsMinBits ==
    rr_last.rank = 1 => rr_last.ret = MIN_SIZE_BITS

\* An immediate repeat of a resident address that returned MIN_SIZE_BITS on
\* a tracker whose third pool is in use.
C3_Witness ==
    /\ rr_last.rank = 1
    /\ rr_last.ret = MIN_SIZE_BITS
    /\ rr_last.resident
    /\ \E p \in RR_OccupiedSlots : p >= 2 * MIN_SIZE

\* C4: RD_LogRR with non-zero addresses: the position map and the slot array
\* correspond one to one: every map entry a -> p has slot[p] = a, no two
\* addresses map to one slot, every non-empty slot holds an address mapped
\* to that slot, and the map has as many entries as there are occupied slots.
C4_MapAndSlotsCorrespond ==
    /\ \A a \in DOMAIN entries_map :
          /\ entries_map[a] \in DOMAIN entries_list
          /\ entries_list[entries_map[a]] = a
    /\ \A a, b \in DOMAIN entries_map : a # b => entries_map[a] # entries_map[b]
    /\ \A p \in RR_OccupiedSlots :
          /\ entries_list[p] \in DOMAIN entries_map
          /\ entries_map[entries_list[p]] = p
    /\ Cardinality(DOMAIN entries_map) = Cardinality(RR_OccupiedSlots)

\* A call that pushed an address off the last pool of a full tracker.
C4_Witness ==
    /\ rr_last.erased
    /\ rr_evictions = 2
    /\ Cardinality(DOMAIN entries_map) = 7

\* C5: RD_LogRR: a reference to an address that is not resident returns
\* MAX_SIZE_BITS; an address is not resident exactly when it was never
\* referenced or was erased from the map since its last reference.
C5_NotResidentReturnsMaxBits ==
    rr_seen # {} =>
        /\ rr_last.resident = (rr_last.seen /\ ~rr_last.dropped)
        /\ ~rr_last.resident => rr_last.ret = MAX_SIZE_BITS

\* A reference to an address that had fallen off the last pool.
C5_Witness ==
    /\ rr_last.seen
    /\ rr_last.dropped
    /\ ~rr_last.resident
    /\ rr_last.ret = MAX_SIZE_BITS

\* C6: RD_LogRR: every reference to a non-zero address returns a value in
\* MIN_SIZE_BITS .. MAX_SIZE_BITS.
C6_ReturnInRange ==
    rr_seen # {} => rr_last.ret \in MIN_SIZE_BITS .. MAX_SIZE_BITS

\* A reference that returned a value strictly inside the range.
C6_Witness ==
    /\ rr_last.ret > MIN_SIZE_BITS
    /\ rr_last.ret < MAX_SIZE_BITS

\* C8: RD_LogRR: after reference(a), a non-zero, a is resident, and a
\* reference to the same address as the call before returns MIN_SIZE_BITS.
C8_ResidentAndRepeatAtMinBits ==
    rr_seen # {} =>
        /\ rr_last.address \in DOMAIN entries_map
        /\ rr_last.again => rr_last.ret = MIN_SIZE_BITS

\* A repeat of the address of the call before that returned MIN_SIZE_BITS,
\* on a tracker that has dropped an address and uses its third pool.
C8_Witness ==
    /\ rr_last.again
    /\ rr_last.ret = MIN_SIZE_BITS
    /\ rr_evictions >= 1
    /\ rr_last.address \in DOMAIN entries_map
    /\ \E p \in RR_OccupiedSlots : p >= 2 * MIN_SIZE

\* C9: RD_LogRR: once reference(0) was called the map has an entry for key 0
\* and the correspondence of C4 is lost; the call that enters the key writes
\* 0 (the empty value) into the first pool's cursor slot, maps key 0 to that
\* slot and advances the cursor past it.
C9_ZeroCorruptsBookkeeping ==
    0 \in rr_seen =>
        /\ 0 \in DOMAIN entries_map
        /\ ~C4_MapAndSlotsCorrespond
        /\ (rr_last.address = 0 /\ ~rr_last.resident) =>
              /\ Len(rr_last.walk) >= 1
              /\ rr_last.walk[1].bin = MIN_SIZE_BITS
              /\ rr_last.walk[1].item = 0
              /\ entries_map[0] = rr_last.walk[1].idx
              /\ entries_list[entries_map[0]] = 0
              /\ replace_position[MIN_SIZE_BITS]
                     = (rr_last.walk[1].idx + 1) % 2^(MIN_SIZE_BITS - 1)

\* Key 0 and a real address mapped to the same slot.
C9_Witness ==
    /\ 0 \in DOMAIN entries_map
    /\ \E a \in DOMAIN entries_map : a # 0 /\ entries_map[a] = entries_map[0]

\* First slot of pool b in entries_list.
PoolBase(b) == IF b = MIN_SIZE_BITS THEN 0 ELSE 2^(b - 1)

\* The block of entries_list that holds pool b.
PoolBlock(b) ==
    IF b = MIN_SIZE_BITS THEN 0 .. MIN_SIZE - 1 ELSE 2^(b - 1) .. 2^b - 1

\* The pool whose block holds slot p.
PoolOf(p) == IF p < MIN_SIZE THEN MIN_SIZE_BITS ELSE FloorLog2(p) + 1

\* Pools written by the walk of the call recorded in `last`.
WalkBins(last) == {last.walk[i].bin : i \in 1 .. Len(last.walk)}

\* C15 (as stated): RD_LogRR: each pool's cursor wraps modulo the pool's
\* capacity, pool MIN_SIZE_BITS having capacity MIN_SIZE and capacities
\* doubling from each pool to the next: consecutive writes into pool
\* MIN_SIZE_BITS use MIN_SIZE distinct slots before a slot is reused.
C15_AsStated ==
    [][\A i \in 1 .. Len(rr_last'.walk) :
          LET b == rr_last'.walk[i].bin
          IN  replace_position'[b] =
                  (replace_position[b] + 1) % (MIN_SIZE * 2^(b - MIN_SIZE_BITS))]_vars

\* C15 (amended): RD_LogRR: each pool's cursor wraps modulo the pool's
\* capacity, pool b having capacity 2^(b-1) for every b, so pool
\* MIN_SIZE_BITS has capacity MIN_SIZE / 2 and capacities double from each
\* pool to the next: a walk writes pool b at its first slot + cursor and
\* advances that cursor by one modulo 2^(b-1); no other cursor moves.
C15_CursorWrapsModuloPoolCapacity ==
    [][/\ \A i \in 1 .. Len(rr_last'.walk) :
             LET b == rr_last'.walk[i].bin
             IN  /\ rr_last'.walk[i].idx = PoolBase(b) + replace_position[b]
                 /\ replace_position'[b] = (replace_position[b] + 1) % 2^(b - 1)
       /\ \A b \in DOMAIN replace_position :
             b \notin WalkBins(rr_last') => replace_position'[b] = replace_position[b]
       /\ \A b \in MIN_SIZE_BITS .. MAX_SIZE_BITS - 1 :
             replace_position'[b] < 2^(b - 1)]_vars

\* A walk through all three pools that wrapped the second pool's cursor
\* from its last slot back to 0.
C15_Witness ==
    /\ Len(rr_last.walk) = 3
    /\ rr_last.walk[2].idx = PoolBase(MIN_SIZE_BITS + 1) + 2^MIN_SIZE_BITS - 1
    /\ replace_position[MIN_SIZE_BITS + 1] = 0
    /\ replace_position[MIN_SIZE_BITS + 2] > 0

\* C16: RD_LogRR with non-zero addresses: a reference to a resident address
\* leaves the set of resident addresses (and of occupied slots) unchanged,
\* and when its walk ran the last carried item fills the slot the address
\* vacated; a reference to a non-resident address adds it and removes at
\* most one other address; the number of residents never decreases.
C16_ResidentSetFrame ==
    [][LET a == rr_last'.address
           before == DOMAIN entries_map
           after == DOMAIN entries_map'
       IN  /\ rr_last'.resident =>
                 /\ after = before
                 /\ {q \in DOMAIN entries_list' : entries_list'[q] # 0}
                        = {q \in DOMAIN entries_list : entries_list[q] # 0}
                 /\ rr_last'.walked =>
                        /\ entries_list'[entries_map[a]] = rr_last'.item
                        /\ entries_map'[rr_last'.item] = entries_map[a]
           /\ ~rr_last'.resident =>
                 /\ after \ before = {a}
                 /\ Cardinality(before \ after) <= 1
           /\ Cardinality(after) >= Cardinality(before)]_vars

\* A resident address brought back from the third pool: the walk ran and
\* the address it pushed out of the first pool took the vacated slot.
C16_Witness ==
    /\ rr_last.resident
    /\ rr_last.walked
    /\ Len(rr_last.walk) = 1
    /\ rr_last.item # 0
    /\ rr_last.item \in DOMAIN entries_map
    /\ entries_map[rr_last.item] >= 2 * MIN_SIZE
    /\ rr_evictions >= 1

\* C17: RD_LogRR: a reference returns MIN_SIZE_BITS exactly when the address
\* is resident at a slot below MIN_SIZE or in the block whose
\* floor(log2(position)) is MIN_SIZE_BITS, and such a reference leaves the
\* slot array, the position map and every cursor unchanged.
C17_MinBitsReturnChangesNothing ==
    [][LET a == rr_last'.address
       IN  /\ (rr_last'.ret = MIN_SIZE_BITS) =
                 (/\ a \in DOMAIN entries_map
                  /\ \/ entries_map[a] < MIN_SIZE
                     \/ FloorLog2(entries_map[a]) = MIN_SIZE_BITS)
           /\ rr_last'.ret = MIN_SIZE_BITS =>
                 UNCHANGED <<entries_list, entries_map, replace_position>>]_vars

\* A reference that returned MIN_SIZE_BITS for an address in the second
\* pool (not the early return), the third pool being in use.
C17_Witness ==
    /\ rr_last.ret = MIN_SIZE_BITS
    /\ rr_last.walked
    /\ rr_last.address \in DOMAIN entries_map
    /\ entries_map[rr_last.address] >= MIN_SIZE
    /\ \E p \in RR_OccupiedSlots : p >= 2 * MIN_SIZE

\* C18: RD_LogRR: every slot the walk writes for pool b lies in that pool's
\* block ([0, MIN_SIZE) for b = MIN_SIZE_BITS, [2^(b-1), 2^b) otherwise);
\* every slot index used is below MAX_SIZE and every cursor index used is
\* below MAX_SIZE_BITS.
C18_WalkWritesInsidePoolBlock ==
    /\ \A i \in 1 .. Len(rr_last.walk) :
          LET w == rr_last.walk[i]
          IN  /\ w.bin \in MIN_SIZE_BITS .. MAX_SIZE_BITS - 1
              /\ w.bin \in DOMAIN replace_position
              /\ w.idx \in PoolBlock(w.bin)
              /\ w.idx < MAX_SIZE
              /\ w.idx \in DOMAIN entries_list
    /\ \A a \in DOMAIN entries_map :
          entries_map[a] < MAX_SIZE /\ entries_map[a] \in DOMAIN entries_list
    /\ DOMAIN replace_position = 0 .. MAX_SIZE_BITS - 1

\* A walk that wrote a slot of every pool and pushed an address off the
\* last one.
C18_Witness ==
    /\ Len(rr_last.walk) = MAX_SIZE_BITS - MIN_SIZE_BITS
    /\ rr_last.walk[3].bin = MAX_SIZE_BITS - 1
    /\ rr_last.walk[3].idx > 2^(MAX_SIZE_BITS - 2)
    /\ rr_last.erased

\* C19: RD_LogRR with non-zero addresses: the walk of a reference to a
\* resident address never takes the empty value out of a slot (every pool
\* below a resident address's pool has an occupied slot at its cursor), so
\* the walk meets an empty slot only for non-resident addresses; the map
\* never has key 0; no occupied slot becomes empty.
C19_NoEmptyEvictionForResidents ==
    /\ [](/\ 0 \notin DOMAIN entries_map
          /\ rr_last.resident =>
                \A i \in 1 .. Len(rr_last.walk) : rr_last.walk[i].out # 0
          /\ (\E i \in 1 .. Len(rr_last.walk) : rr_last.walk[i].out = 0)
                => ~rr_last.resident
          /\ \A i \in 1 .. Len(rr_last.walk) : rr_last.walk[i].item # 0
          /\ (rr_last.walked /\ rr_last.ret < MAX_SIZE_BITS) => rr_last.item # 0
          /\ \A a \in DOMAIN entries_map :
                \A b \in MIN_SIZE_BITS .. PoolOf(entries_map[a]) - 1 :
                    entries_list[PoolBase(b) + replace_position[b]] # 0)
    /\ [][\A q \in DOMAIN entries_list :
              entries_list[q] # 0 => entries_list'[q] # 0]_vars

\* A resident address of the third pool whose walk pushed an address out of
\* the first pool, on a tracker that also saw a walk stop at an empty slot.
C19_Witness ==
    /\ rr_last.resident
    /\ rr_last.ret > MIN_SIZE_BITS
    /\ Len(rr_last.walk) >= 1
    /\ rr_last.walk[1].out # 0
    /\ \E q \in PoolBlock(MAX_SIZE_BITS - 1) : entries_list[q] = 0

\* C20: RD_LogRR: a reference to a resident address returns at most
\* MAX_SIZE_BITS - 2; MAX_SIZE_BITS - 1 is never returned; MAX_SIZE_BITS is
\* returned only for an address that is not resident; a reference to an
\* address that sits in pool b > MIN_SIZE_BITS returns b - 1.
C20_ResidentReturnsBelowMaxBitsMinusOne ==
    rr_seen # {} =>
        /\ rr_last.resident => rr_last.ret <= MAX_SIZE_BITS - 2
        /\ rr_last.ret # MAX_SIZE_BITS - 1
        /\ rr_last.ret = MAX_SIZE_BITS => ~rr_last.resident
        /\ \A a \in DOMAIN entries_map :
              PoolOf(entries_map[a]) > MIN_SIZE_BITS =>
                  LogRR_reference(entries_list, entries_map, replace_position, a).ret
                      = PoolOf(entries_map[a]) - 1

\* A reference to an address of the last pool returned MAX_SIZE_BITS - 2,
\* and the last pool still holds addresses.
C20_Witness ==
    /\ rr_last.resident
    /\ rr_last.ret = MAX_SIZE_BITS - 2
    /\ \E a \in DOMAIN entries_map : PoolOf(entries_map[a]) = MAX_SIZE_BITS - 1

====
